---- MODULE Spec2Model ----
(***************************************************************************)
(* signal_bot.py: the command handlers of the Signal relay bot, the        *)
(* per-sender conversation store (ChatCommand.conversations) and the       *)
(* PrivateModeClient calls, as an asyncio state machine.                    *)
(*                                                                         *)
(* Every inbound message becomes one handler invocation (a task).  The     *)
(* event loop is single threaded: a task runs without interruption from    *)
(* one network await to the next, so one action is one such run.  The      *)
(* suspension points are the GET of list_models (line 28) and the POST of  *)
(* chat_completion (line 60); a task parked there is resumed by an action  *)
(* that draws the remote outcome.                                          *)
(***************************************************************************)
EXTENDS Integers, Sequences, FiniteSets, TLC

VARIABLES
    model,          \* ChatCommand.model: PRIVATEMODE_MODEL or None (line 176)
    conversations,  \* ChatCommand.conversations: dict sender -> list of turns
    tasks           \* the handler invocations, in receipt order

vars == <<model, conversations, tasks>>

-----------------------------------------------------------------------------
(* Bounds of the exploration *)

\* messages received in a run of the general specification
MaxMsgs == 2
\* messages received in a run of the routing specification
MaxRouted == 2
\* handler invocations in a run of the handler specification
MaxHandled == 3
\* messages received in a run of the single-sender specification
MaxLong == 7
\* invocations of the single-sender specification that start while another
\* one is suspended
MaxOverlap == 1
\* handler invocations suspended at the same time
MaxInFlight == 2

-----------------------------------------------------------------------------
(* Values *)

None == "None"

Senders == {"+100", "+200"}

\* message texts: empty, whitespace only, the command words, a plain message
Texts == {"", " ", "clear", "models", "help", "hello"}

\* the command words of the help text (lines 156-159)
CommandTokens == {"clear", "models", "help"}

\* values of PRIVATEMODE_MODEL (line 176)
ConfiguredModels == {None, "m1"}

\* what GET /v1/models can yield: [] on failure or an empty list, else ids
ModelLists == {<< >>, <<"m1", "m2">>, <<"m2", "m1">>}

\* what POST /v1/chat/completions can yield
PostOutcomes ==
    { [kind |-> "ok", value |-> "hi there"],
      [kind |-> "status", value |-> "500"],
      [kind |-> "exception", value |-> "timeout"] }

\* the argument `messages` of a suspended chat_completion is a reference to a
\* list object.  SharedRef: the object is still the one stored under the
\* sender's key, and appends made by other invocations show through it.
\* Frozen(lst): the object was unbound from the key (rebound by line 103 or
\* deleted by line 128); nothing can reach it to change it any more, so the
\* task holds its final contents.  NoRef: no call is pending on a list.
NoRef == [ref |-> "none", val |-> << >>]
SharedRef == [ref |-> "shared", val |-> << >>]
Frozen(lst) == [ref |-> "frozen", val |-> lst]

-----------------------------------------------------------------------------
(* Pure helpers *)

\* python truthiness of a str: only the empty string is falsy (lines 86, 198)
Truthy(text) == text # ""

\* lst[-n:]
LastN(lst, n) ==
    IF Len(lst) <= n THEN lst ELSE SubSeq(lst, Len(lst) - n + 1, Len(lst))

\* lst[:n]
FirstN(lst, n) ==
    IF Len(lst) <= n THEN lst ELSE SubSeq(lst, 1, n)

MAX_HISTORY == 10

\* Truncate with the slice taken from the wrong end, [:10]
TruncateHead(lst) ==
    IF Len(lst) > MAX_HISTORY THEN FirstN(lst, MAX_HISTORY) ELSE lst

\* Truncate that also drops a leading assistant turn
TruncateAligned(lst) ==
    IF Len(lst) > MAX_HISTORY
    THEN IF LastN(lst, MAX_HISTORY)[1].role = "assistant"
         THEN LastN(lst, MAX_HISTORY - 1)
         ELSE LastN(lst, MAX_HISTORY)
    ELSE lst

\* lines 102-103: keep only the last 10 messages
Truncate(lst) ==
    IF Len(lst) > MAX_HISTORY THEN LastN(lst, MAX_HISTORY) ELSE lst

\* lines 96-99; msg is the receipt number of the originating message
UserTurn(text, i) == [role |-> "user", content |-> text, msg |-> i]

\* lines 109-112
AssistantTurn(response, i) == [role |-> "assistant", content |-> response, msg |-> i]

\* the literal of line 49 misquoted
NoModelsReplyReworded == "Sorry, no models available."

\* line 49
NoModelsReply == "Sorry, no models are available at the moment."
PromptReply == "Please provide a message to chat with the AI."

\* lines 61-70: the string chat_completion returns for a POST outcome
CompletionReply(outcome) ==
    CASE outcome.kind = "ok" -> outcome.value
      [] outcome.kind = "status" -> "Sorry, I encountered an error: " \o outcome.value
      [] OTHER -> "Sorry, I couldn't process your request: " \o outcome.value

\* Payload with a model id written into it instead of the argument
PayloadHardcoded(m, messages) == [model |-> "m2", messages |-> messages]

\* lines 51-56 (temperature and max_tokens are fixed literals)
Payload(m, messages) == [model |-> m, messages |-> messages]

-----------------------------------------------------------------------------
(* Task bookkeeping *)

InFlight(i) == tasks[i].pc \in {"list_models", "post"}

\* suspended in any await, the model listing of ModelsCommand included
Awaiting == {i \in DOMAIN tasks : tasks[i].pc \in {"list_models", "post", "models"}}

Suspended == {i \in DOMAIN tasks : InFlight(i)}

SuspendedFor(s) == {i \in Suspended : tasks[i].sender = s}

History(s) == IF s \in DOMAIN conversations THEN conversations[s] ELSE << >>

NewTask(s, text) ==
    [ sender   |-> s,
      text     |-> text,
      handler  |-> None,        \* the handler the message was dispatched to
      pc       |-> "start",
      messages |-> NoRef,       \* the list passed to chat_completion
      posts    |-> << >>,       \* payloads sent to the completion endpoint
      lists    |-> 0,           \* model-list queries made
      listed   |-> << >>,       \* the lists those queries returned
      returned |-> << >>,       \* what chat_completion returned
      replies  |-> << >>,       \* texts sent back with c.send
      created  |-> FALSE,       \* whether it created the sender's history
      appends  |-> 0,           \* turns this invocation appended
      len0     |-> Len(History(s)),   \* history length when it started
      during   |-> SuspendedFor(s) ]  \* same-sender invocations then suspended

\* the other suspended invocations of s that hold the stored list object get
\* its final contents when the key is rebound or deleted
Detach(ts, s, old) ==
    [ j \in DOMAIN ts |->
        IF ts[j].sender = s /\ ts[j].pc \in {"list_models", "post"}
             /\ ts[j].messages = SharedRef
        THEN [ts[j] EXCEPT !.messages = Frozen(old)]
        ELSE ts[j] ]

\* the list a suspended chat_completion reads through `messages`
Deref(i) ==
    IF tasks[i].messages.ref = "shared"
    THEN conversations[tasks[i].sender]
    ELSE tasks[i].messages.val

-----------------------------------------------------------------------------
(* ChatCommand.handle, lines 82-115 *)

\* ChatCommand_finish that sends the response without recording it
ChatCommand_finish_unsaved(ts, i, response) ==
    /\ UNCHANGED conversations
    /\ tasks' = [ts EXCEPT ![i].pc = "done",
                              ![i].messages = NoRef,
                              ![i].returned = <<response>>,
                              ![i].replies = Append(@, response)]

\* lines 109-115, reached when chat_completion returns `response`: the key is
\* looked up again, so a deleted key raises KeyError before anything is sent;
\* ts is the task table as the resumed call has left it
ChatCommand_finish(ts, i, response) ==
    LET s == ts[i].sender IN
    IF s \notin DOMAIN conversations
    THEN /\ tasks' = [ts EXCEPT ![i].pc = "raised", ![i].messages = NoRef,
                                ![i].returned = <<response>>]
         /\ UNCHANGED conversations
    ELSE /\ conversations' =
             [conversations EXCEPT ![s] = Append(@, AssistantTurn(response, i))]
         /\ tasks' = [ts EXCEPT ![i].pc = "done",
                                   ![i].messages = NoRef,
                                   ![i].returned = <<response>>,
                                   ![i].appends = @ + 1,
                                   ![i].replies = Append(@, response)]

\* lines 82-106 and chat_completion up to its first await (lines 39-60), for a
\* new invocation t0 with receipt number i
ChatCommand_handle(i, t0) ==
    LET s == t0.sender
        message_text == t0.text
    IN
    IF ~Truthy(message_text)
    THEN \* lines 86-88
         /\ tasks' = Append(tasks, [t0 EXCEPT !.handler = "chat", !.pc = "done",
                                              !.replies = <<PromptReply>>])
         /\ UNCHANGED conversations
    ELSE LET appended == Append(History(s), UserTurn(message_text, i))
             rebound == Len(appended) > MAX_HISTORY
             kept == Truncate(appended)
             others == IF rebound THEN Detach(tasks, s, appended) ELSE tasks
             started == [t0 EXCEPT !.handler = "chat", !.appends = 1,
                                   !.created = (s \notin DOMAIN conversations)]
         IN
         /\ conversations' =
               [x \in DOMAIN conversations \cup {s} |->
                    IF x = s THEN kept ELSE conversations[x]]
         /\ IF model # None
            THEN \* lines 51-60: the payload is built and posted at once
                 tasks' = Append(others,
                     [started EXCEPT !.pc = "post",
                                     !.posts = <<Payload(model, kept)>>])
            ELSE \* lines 43-44: list_models is awaited first
                 tasks' = Append(others,
                     [started EXCEPT !.pc = "list_models",
                                     !.lists = 1,
                                     !.messages = SharedRef])

\* ChosenModel that keeps the model of an earlier request once one was made
ChosenModelCached(i, available_models) ==
    IF \E j \in DOMAIN tasks : tasks[j].posts # << >>
    THEN tasks[CHOOSE j \in DOMAIN tasks : tasks[j].posts # << >>].posts[1].model
    ELSE available_models[1]

\* line 46: the model invocation i uses in auto mode
ChosenModel(i, available_models) == available_models[1]

\* lines 44-60: list_models returned `available_models` to chat_completion
list_models_return(i, available_models) ==
    /\ i \in DOMAIN tasks
    /\ tasks[i].pc = "list_models"
    /\ UNCHANGED model
    /\ LET seen == [tasks EXCEPT ![i].listed = Append(@, available_models)] IN
       IF available_models = << >>
       THEN ChatCommand_finish(seen, i, NoModelsReply)
       ELSE /\ tasks' = [seen EXCEPT
                  ![i].pc = "post",
                  ![i].messages = NoRef,
                  ![i].posts = Append(@, Payload(ChosenModel(i, available_models),
                                                 Deref(i)))]
            /\ UNCHANGED conversations

\* lines 60-70 and 106-115: the POST came back
post_return(i, outcome) ==
    /\ i \in DOMAIN tasks
    /\ tasks[i].pc = "post"
    /\ UNCHANGED model
    /\ ChatCommand_finish(tasks, i, CompletionReply(outcome))

-----------------------------------------------------------------------------
(* ClearCommand.handle, lines 125-131 *)

ClearedReply == "Conversation history cleared."
NothingToClearReply == "No conversation history to clear."

\* Del that empties the whole dict
DelAll(conv, s) == << >>

\* Del that leaves an empty list under the key
DelToEmpty(conv, s) == [conv EXCEPT ![s] = << >>]

\* line 128: del conversations[s]
Del(conv, s) == [x \in DOMAIN conv \ {s} |-> conv[x]]

\* an invocation of ClearCommand.handle for a message `text` from s; the
\* invocations suspended on the deleted list keep that list
ClearCommand_handle(s, text) ==
    /\ UNCHANGED model
    /\ LET t0 == [NewTask(s, text) EXCEPT !.handler = "clear", !.pc = "done"] IN
       IF s \in DOMAIN conversations
       THEN /\ conversations' = Del(conversations, s)
            /\ tasks' = Append(Detach(tasks, s, conversations[s]),
                               [t0 EXCEPT !.replies = <<ClearedReply>>])
       ELSE /\ UNCHANGED conversations
            /\ tasks' = Append(tasks, [t0 EXCEPT !.replies = <<NothingToClearReply>>])

-----------------------------------------------------------------------------
(* ModelsCommand.handle, lines 141-147, and HelpCommand.handle, lines 154-162 *)

NoModelsListedReply == "No models available or unable to fetch model list."

\* line 144: one bullet line per model id, joined by newlines (the bullet
\* character of the source is written "*")
RECURSIVE Bullets(_)
Bullets(models) ==
    IF Len(models) = 1 THEN "* " \o models[1]
    ELSE "* " \o models[1] \o "\n" \o Bullets(Tail(models))

\* lines 143-146
ModelsText(models) ==
    IF models # << >> THEN "Available models:\n" \o Bullets(models)
                      ELSE NoModelsListedReply

\* lines 155-161
HelpText ==
    "Available commands:\n" \o
    "!chat <message> - Chat with AI assistant\n" \o
    "!clear - Clear conversation history\n" \o
    "!models - List available models\n" \o
    "!help - Show this help message\n\n" \o
    "You can also send messages without commands for direct chat."

\* line 142 up to the await of list_models
ModelsCommand_handle(s, text) ==
    /\ UNCHANGED <<model, conversations>>
    /\ tasks' = Append(tasks, [NewTask(s, text) EXCEPT
                     !.handler = "models", !.pc = "models", !.lists = 1])

\* lines 142-147: list_models returned to ModelsCommand.handle
ModelsCommand_return(i, models) ==
    /\ i \in DOMAIN tasks
    /\ tasks[i].pc = "models"
    /\ UNCHANGED <<model, conversations>>
    /\ tasks' = [tasks EXCEPT ![i].pc = "done",
                              ![i].listed = Append(@, models),
                              ![i].replies = <<ModelsText(models)>>]

\* lines 154-162
HelpCommand_handle(s, text) ==
    /\ UNCHANGED <<model, conversations>>
    /\ tasks' = Append(tasks, [NewTask(s, text) EXCEPT
                     !.handler = "help", !.pc = "done", !.replies = <<HelpText>>])

-----------------------------------------------------------------------------
(* main: the one registered handler, lines 189-203 *)

\* Dispatch with the text stripped before the test
DispatchStripped(text) == IF text \notin {"", " "} THEN "chat" ELSE None

\* line 198: the handler a message text is passed on to
Dispatch(text) == IF Truthy(text) THEN "chat" ELSE None

\* lines 196-200, for a message `text` from s
UniversalChatHandler_handle(s, text) ==
    /\ UNCHANGED model
    /\ LET i == Len(tasks) + 1
           t0 == NewTask(s, text)
       IN IF Dispatch(text) = "chat"
          THEN ChatCommand_handle(i, t0)
          ELSE /\ tasks' = Append(tasks, [t0 EXCEPT !.pc = "done"])
               /\ UNCHANGED conversations

-----------------------------------------------------------------------------
(* Specifications *)

Init ==
    /\ model \in ConfiguredModels
    /\ conversations = << >>
    /\ tasks = << >>

\* The program as main wires it: every message goes to UniversalChatHandler.
\* The three specifications differ only in what the environment sends and
\* answers; the handlers are the same.

\* the environment has sent fewer than max messages and fewer than MaxInFlight
\* invocations are suspended
MayReceive(max) ==
    /\ Len(tasks) < max
    /\ Cardinality(Awaiting) < MaxInFlight

\* invocations that started while another one of their sender was suspended
Overlapping == {j \in DOMAIN tasks : tasks[j].during # {}}

\* Spec: two senders, every remote outcome, plain and empty messages
SpecTexts == {"", "hello"}

Receive ==
    /\ MayReceive(MaxMsgs)
    /\ \E s \in Senders, text \in SpecTexts : UniversalChatHandler_handle(s, text)
ModelsListed ==
    \E i \in DOMAIN tasks, lst \in ModelLists : list_models_return(i, lst)
Completed ==
    \E i \in DOMAIN tasks, o \in PostOutcomes : post_return(i, o)

Next == Receive \/ ModelsListed \/ Completed

Spec == Init /\ [][Next]_vars

\* SpecRouting: two senders, every message text, a remote that answers
RoutingLists == {<< >>, <<"m1", "m2">>}
RoutingOutcomes == {[kind |-> "ok", value |-> "hi there"]}

ReceiveRouted ==
    /\ MayReceive(MaxRouted)
    /\ \E s \in Senders, text \in Texts : UniversalChatHandler_handle(s, text)
ModelsListedRouted ==
    \E i \in DOMAIN tasks, lst \in RoutingLists : list_models_return(i, lst)
CompletedRouted ==
    \E i \in DOMAIN tasks, o \in RoutingOutcomes : post_return(i, o)

NextRouting == ReceiveRouted \/ ModelsListedRouted \/ CompletedRouted

SpecRouting == Init /\ [][NextRouting]_vars

\* SpecLong: one sender chatting long enough for the history to be truncated
LongSender == "+100"
LongLists == {<<"m1", "m2">>}
LongOutcomes == {[kind |-> "ok", value |-> "hi there"],
                 [kind |-> "status", value |-> "500"]}

ReceiveLong ==
    /\ MayReceive(MaxLong)
    /\ SuspendedFor(LongSender) # {} => Cardinality(Overlapping) < MaxOverlap
    /\ UniversalChatHandler_handle(LongSender, "hello")
ModelsListedLong ==
    \E i \in DOMAIN tasks, lst \in LongLists : list_models_return(i, lst)
CompletedLong ==
    \E i \in DOMAIN tasks, o \in LongOutcomes : post_return(i, o)

NextLong == ReceiveLong \/ ModelsListedLong \/ CompletedLong

SpecLong == Init /\ [][NextLong]_vars

\* SpecHandlers: the four command handlers invoked directly, as a dispatcher
\* that has them registered would, for two senders
HandlerLists == {<< >>, <<"m1", "m2">>}
HandlerOutcomes == {[kind |-> "ok", value |-> "hi there"],
                    [kind |-> "status", value |-> "500"]}

ChatInvoked ==
    /\ MayReceive(MaxHandled)
    /\ \E s \in Senders, text \in SpecTexts :
          /\ ChatCommand_handle(Len(tasks) + 1, NewTask(s, text))
          /\ UNCHANGED model
ClearInvoked ==
    /\ MayReceive(MaxHandled)
    /\ \E s \in Senders : ClearCommand_handle(s, "clear")
ModelsInvoked ==
    /\ MayReceive(MaxHandled)
    /\ \E s \in Senders : ModelsCommand_handle(s, "models")
HelpInvoked ==
    /\ MayReceive(MaxHandled)
    /\ \E s \in Senders : HelpCommand_handle(s, "help")
ModelsListedHandlers ==
    \E i \in DOMAIN tasks, lst \in HandlerLists : list_models_return(i, lst)
ModelsAnswered ==
    \E i \in DOMAIN tasks, lst \in HandlerLists : ModelsCommand_return(i, lst)
CompletedHandlers ==
    \E i \in DOMAIN tasks, o \in HandlerOutcomes : post_return(i, o)

NextHandlers ==
    \/ ChatInvoked \/ ClearInvoked \/ ModelsInvoked \/ HelpInvoked
    \/ ModelsListedHandlers \/ ModelsAnswered \/ CompletedHandlers

SpecHandlers == Init /\ [][NextHandlers]_vars

-----------------------------------------------------------------------------
(* Vocabulary of the properties *)

Min(a, b) == IF a < b THEN a ELSE b

IsChat(i) == tasks[i].handler = "chat" /\ tasks[i].text # ""

Finished(i) == tasks[i].pc = "done"

\* invocation i never ran while another invocation of its sender was suspended
Alone(i) ==
    /\ tasks[i].during = {}
    /\ \A j \in DOMAIN tasks : i \notin tasks[j].during

\* no later invocation of the same sender has touched the history
Latest(i) ==
    \A k \in DOMAIN tasks :
        (k > i /\ tasks[k].sender = tasks[i].sender) => tasks[k].appends = 0

\* the turns of sender s in receipt order of their messages: for each chat
\* message its user turn, then the reply that was sent for it
RECURSIVE TranscriptUpTo(_, _)
TranscriptUpTo(s, n) ==
    IF n = 0 THEN << >>
    ELSE LET t == tasks[n]
             own == IF t.sender = s /\ IsChat(n)
                    THEN <<[role |-> "user", content |-> t.text, msg |-> n]>>
                         \o [k \in 1..Len(t.replies) |->
                               [role |-> "assistant", content |-> t.replies[k], msg |-> n]]
                    ELSE << >>
         IN TranscriptUpTo(s, n - 1) \o own

Transcript(s) == TranscriptUpTo(s, Len(tasks))

IsSuffix(a, b) ==
    /\ Len(a) <= Len(b)
    /\ \A k \in 1..Len(a) : a[k] = b[Len(b) - Len(a) + k]

Sequential(s) ==
    /\ SuspendedFor(s) = {}
    /\ \A j \in DOMAIN tasks : tasks[j].sender = s => tasks[j].during = {}

\* positions of the turn of message i with the given role in list h
Places(h, i, role) == {k \in 1..Len(h) : h[k].msg = i /\ h[k].role = role}

-----------------------------------------------------------------------------
(* C1..C10 *)

\* C1: in every reachable state every sender's stored history has at most
\* MAX_HISTORY = 10 turns, after the user-turn append and after the
\* assistant-turn append of every chat invocation.
C1_HistoryBounded ==
    \A s \in DOMAIN conversations : Len(conversations[s]) <= MAX_HISTORY

\* C2: after any number of sequential chat invocations of a sender, with none
\* of them overlapping another, the stored history is a contiguous suffix of
\* the transcript user1, assistant1, ..., userN, assistantN, and it holds the
\* most recent turns: all of them while there are at most MAX_HISTORY.
C2_SuffixOfTranscript ==
    \A s \in Senders :
        Sequential(s) =>
            /\ IsSuffix(History(s), Transcript(s))
            /\ Len(History(s)) >= Min(Len(Transcript(s)), MAX_HISTORY)

\* a sequential sender whose oldest turns have been evicted
C2_Witness ==
    \E s \in Senders :
        /\ Sequential(s)
        /\ Len(History(s)) >= MAX_HISTORY
        /\ Len(Transcript(s)) > Len(History(s))
        /\ \E i \in DOMAIN tasks : Finished(i) /\ tasks[i].replies # <<"hi there">>

\* C3: two concurrent chat invocations i < j of one sender (j starts while i
\* is suspended in its completion call) lose no append: once both have
\* finished the history has grown by 2 per invocation, bounded by MAX_HISTORY,
\* all four turns are in it, and the user turn of i precedes the user turn of j.
C3_NoLostAppend ==
    \A i, j \in DOMAIN tasks :
        ( /\ i < j
          /\ tasks[i].sender = tasks[j].sender
          /\ IsChat(i) /\ IsChat(j)
          /\ tasks[i].during = {} /\ tasks[j].during = {i}
          /\ Finished(i) /\ Finished(j)
          /\ \A k \in DOMAIN tasks \ {i, j} :
                 tasks[k].sender = tasks[i].sender => k < i )
        => LET h == History(tasks[i].sender) IN
           /\ Len(h) = Min(tasks[i].len0 + 4, MAX_HISTORY)
           /\ \A m \in {i, j}, r \in {"user", "assistant"} : Places(h, m, r) # {}
           /\ \A a \in Places(h, i, "user"), b \in Places(h, j, "user") : a < b

\* C4: per-sender FIFO: for messages i < j of one sender, every turn of i is
\* appended before any turn of j, so once j has appended a turn the invocation
\* of i is over.
C4_PerSenderFifo ==
    \A i, j \in DOMAIN tasks :
        ( /\ i < j
          /\ tasks[i].sender = tasks[j].sender
          /\ IsChat(i) /\ IsChat(j)
          /\ tasks[j].appends > 0 )
        => ~InFlight(i)

\* C5: access to one sender's history is serialized: never are two
\* invocations of the same sender both between their user-turn append and
\* their assistant-turn append.
C5_Serialized ==
    \A s \in Senders : Cardinality(SuspendedFor(s)) <= 1

\* C6: a message whose text is clear, models or help goes to the handler of
\* that name and not to the chat handler: it appends no turn and triggers no
\* completion request.
C6_CommandsRouted ==
    \A i \in DOMAIN tasks :
        tasks[i].text \in CommandTokens =>
            /\ tasks[i].handler = tasks[i].text
            /\ tasks[i].appends = 0
            /\ tasks[i].posts = << >>

\* C7: every message whose text is non-empty and no command word is
\* dispatched to the chat handler, which appends the full unmodified text as
\* the user turn; and equal texts are always routed to the same handler,
\* whatever was received before.
C7_Dispatched ==
    \A i, j \in DOMAIN tasks :
        /\ (tasks[i].text # "" /\ tasks[i].text \notin CommandTokens)
              => tasks[i].handler = "chat"
        /\ tasks[i].text = tasks[j].text => tasks[i].handler = tasks[j].handler

C7_FullText ==
    Len(tasks') = Len(tasks) + 1 =>
        LET n == Len(tasks')
            t == tasks'[n]
        IN (t.text # "" /\ t.text \notin CommandTokens) =>
              /\ t.sender \in DOMAIN conversations'
              /\ Len(conversations'[t.sender]) > 0
              /\ conversations'[t.sender][Len(conversations'[t.sender])]
                    = [role |-> "user", content |-> t.text, msg |-> n]

C7_FallbackToChat == [](C7_Dispatched) /\ [][C7_FullText]_vars

\* the same whitespace-only text routed twice for one sender, the second time
\* with a history in place, and both times to chat
C7_Witness ==
    \E i, j \in DOMAIN tasks :
        /\ i < j
        /\ tasks[i].text = " " /\ tasks[j].text = " "
        /\ tasks[i].sender = tasks[j].sender
        /\ tasks[j].len0 > 0
        /\ tasks[i].handler = "chat" /\ tasks[j].handler = "chat"

\* C8: every message whose text is empty or whitespace-only is answered with
\* the fixed prompt asking for a message.
C8_PromptForBlank ==
    \A i \in DOMAIN tasks :
        (tasks[i].text \in {"", " "} /\ ~InFlight(i))
            => tasks[i].replies = <<"Please provide a message to chat with the AI.">>

\* C9: a message whose text is empty or whitespace-only leaves the session
\* store unchanged and issues no completion or model-listing request.
C9_BlankNoMutation ==
    \A i \in DOMAIN tasks :
        tasks[i].text \in {"", " "} =>
            /\ tasks[i].appends = 0
            /\ tasks[i].posts = << >>
            /\ tasks[i].lists = 0
            /\ ~tasks[i].created

\* C10: after a chat invocation with non-empty text that overlapped no other
\* operation on its sender, whatever the completion call came to, the history
\* ends with the user turn of the message followed by an assistant turn whose
\* content is the reply text that was sent.
C10_TranscriptFaithful ==
    \A i \in DOMAIN tasks :
        (IsChat(i) /\ Alone(i) /\ ~InFlight(i) /\ Latest(i)) =>
            LET h == History(tasks[i].sender)
                n == Len(h)
            IN /\ Len(tasks[i].replies) = 1
               /\ n >= 2
               /\ h[n - 1] = [role |-> "user", content |-> tasks[i].text, msg |-> i]
               /\ h[n] = [role |-> "assistant", content |-> tasks[i].replies[1], msg |-> i]

\* such an invocation whose completion call failed
C10_Witness ==
    \E i \in DOMAIN tasks :
        /\ IsChat(i) /\ Alone(i) /\ Finished(i) /\ Latest(i)
        /\ tasks[i].replies \in { <<"Sorry, I encountered an error: 500">>,
                                  <<"Sorry, no models are available at the moment.">>,
                                  <<"Sorry, I couldn't process your request: timeout">> }

-----------------------------------------------------------------------------
(* C11..C20 *)

\* the step is the start of an invocation
Starts == Len(tasks') = Len(tasks) + 1

\* the sender of the invocation that takes the step: the one started, or the
\* one resumed
ActingSender ==
    IF Starts THEN tasks'[Len(tasks')].sender
    ELSE tasks[CHOOSE i \in DOMAIN tasks : tasks'[i].pc # tasks[i].pc].sender

\* sender s never had two invocations overlap
NeverOverlapped(s) ==
    \A j \in DOMAIN tasks : tasks[j].sender = s => tasks[j].during = {}

\* C11: clear on sender S answers "cleared" exactly when S has a history at
\* the call, and then S has none afterwards; otherwise it answers "no history"
\* and changes nothing; a clear that directly follows a clear that found a
\* history answers "no history".
C11_ClearStep ==
    (Starts /\ tasks'[Len(tasks')].handler = "clear") =>
        LET t == tasks'[Len(tasks')] IN
        IF t.sender \in DOMAIN conversations
        THEN /\ t.replies = <<"Conversation history cleared.">>
             /\ t.sender \notin DOMAIN conversations'
        ELSE /\ t.replies = <<"No conversation history to clear.">>
             /\ conversations' = conversations

C11_ClearTwice ==
    \A i, j \in DOMAIN tasks :
        ( /\ i < j
          /\ tasks[i].handler = "clear" /\ tasks[j].handler = "clear"
          /\ tasks[i].sender = tasks[j].sender
          /\ tasks[i].replies = <<"Conversation history cleared.">>
          /\ \A k \in DOMAIN tasks :
                (i < k /\ k < j) => tasks[k].sender # tasks[i].sender )
        => tasks[j].replies = <<"No conversation history to clear.">>

C11_ClearReports == [](C11_ClearTwice) /\ [][C11_ClearStep]_vars

\* a clear that found a history, directly followed by a clear of the same
\* sender that found none
C11_Witness ==
    \E i, j \in DOMAIN tasks :
        /\ i < j
        /\ tasks[i].handler = "clear" /\ tasks[j].handler = "clear"
        /\ tasks[i].sender = tasks[j].sender
        /\ tasks[i].len0 > 0
        /\ tasks[i].replies = <<"Conversation history cleared.">>
        /\ tasks[j].replies = <<"No conversation history to clear.">>
        /\ \A k \in DOMAIN tasks : (i < k /\ k < j) => tasks[k].sender # tasks[i].sender

\* C12: with no model configured and an empty model listing, chat_completion
\* returns exactly "Sorry, no models are available at the moment." and that
\* invocation sends nothing to the completion endpoint.
C12_NoModelsNoRequest ==
    \A i \in DOMAIN tasks :
        (model = None /\ IsChat(i) /\ tasks[i].listed = << << >> >>) =>
            /\ tasks[i].returned = <<"Sorry, no models are available at the moment.">>
            /\ tasks[i].posts = << >>
            /\ ~InFlight(i)

\* an auto-mode invocation whose listing came back empty
C12_Witness ==
    \E i \in DOMAIN tasks :
        /\ model = None /\ IsChat(i)
        /\ tasks[i].listed = << << >> >>
        /\ tasks[i].returned # << >>

\* C13: with a model configured, every completion request carries exactly
\* that model, no listing decides it, and the configured model never changes.
C13_ConfiguredModelSent ==
    model # None =>
        \A i \in DOMAIN tasks :
            \A k \in 1..Len(tasks[i].posts) : tasks[i].posts[k].model = model

C13_ModelFixed == [](C13_ConfiguredModelSent) /\ [][model' = model]_vars

\* two requests made with the configured model
C13_Witness ==
    /\ model = "m1"
    /\ \E i, j \in DOMAIN tasks :
          i < j /\ tasks[i].posts # << >> /\ tasks[j].posts # << >>

\* C14: in auto mode every completion request follows one model listing made
\* by the same invocation and carries the first entry of the list that
\* listing returned; nothing is kept from an earlier request.
C14_FreshModel ==
    model = None =>
        \A i \in DOMAIN tasks :
            tasks[i].posts # << >> =>
                /\ Len(tasks[i].posts) = 1
                /\ tasks[i].lists = 1
                /\ Len(tasks[i].listed) = 1
                /\ tasks[i].listed[1] # << >>
                /\ tasks[i].posts[1].model = tasks[i].listed[1][1]

\* two auto-mode requests between which the remote list changed
C14_Witness ==
    /\ model = None
    /\ \E i, j \in DOMAIN tasks :
          /\ i < j
          /\ tasks[i].posts # << >> /\ tasks[j].posts # << >>
          /\ tasks[i].posts[1].model = "m1"
          /\ tasks[j].posts[1].model = "m2"

\* C15: no handler invocation ends in an unhandled fault, whatever the
\* interleaving of chat and clear invocations and the remote outcomes.
C15_NoFault ==
    \A i \in DOMAIN tasks : tasks[i].pc # "raised"

\* C16: every chat invocation with non-empty text sends at most one request
\* to the completion endpoint and, once it is over, has sent exactly one reply.
C16_OneRequestOneReply ==
    \A i \in DOMAIN tasks :
        IsChat(i) =>
            /\ Len(tasks[i].posts) <= 1
            /\ Len(tasks[i].replies) <= 1
            /\ ~InFlight(i) => Len(tasks[i].replies) = 1

\* C17: in sequential operation, from the sixth chat of a sender on (the
\* transcript is then longer than MAX_HISTORY), the history, stored or carried
\* by a completion request, begins with an assistant turn whose user turn was
\* evicted; before that it begins with a user turn.
C17_SplitPair ==
    \A s \in Senders :
        (NeverOverlapped(s) /\ History(s) # << >>) =>
            LET h == History(s)
                split(m) == /\ m[1].role = "assistant"
                            /\ Places(m, m[1].msg, "user") = {}
            IN IF Len(Transcript(s)) > MAX_HISTORY
               THEN /\ split(h)
                    /\ \A i \in DOMAIN tasks :
                          ( /\ tasks[i].sender = s
                            /\ tasks[i].posts # << >>
                            /\ Cardinality({j \in 1..i : tasks[j].sender = s /\ IsChat(j)}) >= 6 )
                          => /\ split(tasks[i].posts[1].messages)
                             /\ Len(tasks[i].posts[1].messages) = MAX_HISTORY
               ELSE h[1].role = "user"

\* the request of a sixth or later sequential chat begins with an assistant turn
C17_Witness ==
    \E i \in DOMAIN tasks :
        /\ NeverOverlapped(tasks[i].sender)
        /\ Cardinality({j \in 1..i : tasks[j].sender = tasks[i].sender /\ IsChat(j)}) >= 6
        /\ tasks[i].posts # << >>
        /\ tasks[i].posts[1].messages[1].role = "assistant"

\* C18: the messages of a completion request are the sender's history as it
\* was right after the invocation appended its user turn and truncated: at
\* most MAX_HISTORY turns, the last one the user turn of the triggering message.
C18_RequestSnapshot ==
    \A i \in DOMAIN tasks :
        \A k \in 1..Len(tasks[i].posts) :
            LET m == tasks[i].posts[k].messages IN
            /\ Len(m) <= MAX_HISTORY
            /\ Len(m) > 0
            /\ m[Len(m)] = [role |-> "user", content |-> tasks[i].text, msg |-> i]

\* C19: once a clear of sender S is over, the history of S holds no turn of a
\* message received before that clear.
C19_CleanCut ==
    \A c \in DOMAIN tasks :
        tasks[c].handler = "clear" =>
            LET h == History(tasks[c].sender) IN
            \A k \in 1..Len(h) : h[k].msg > c

\* C20: an invocation for one sender leaves the history of every other sender
\* as it was, and a completion request holds only turns of its own sender.
C20_Frame ==
    vars' # vars =>
        \A b \in Senders \ {ActingSender} :
            /\ (b \in DOMAIN conversations') = (b \in DOMAIN conversations)
            /\ b \in DOMAIN conversations => conversations'[b] = conversations[b]

C20_OwnTurns ==
    /\ \A b \in DOMAIN conversations :
          \A k \in 1..Len(conversations[b]) :
              tasks[conversations[b][k].msg].sender = b
    /\ \A i \in DOMAIN tasks :
          \A p \in 1..Len(tasks[i].posts) :
              \A k \in 1..Len(tasks[i].posts[p].messages) :
                  tasks[tasks[i].posts[p].messages[k].msg].sender = tasks[i].sender

C20_SenderIsolation == [](C20_OwnTurns) /\ [][C20_Frame]_vars

\* one sender cleared its history while the other had one and had made a request
C20_Witness ==
    \E c, i \in DOMAIN tasks :
        /\ tasks[c].handler = "clear"
        /\ tasks[c].replies = <<"Conversation history cleared.">>
        /\ tasks[i].sender # tasks[c].sender
        /\ i < c
        /\ tasks[i].posts # << >>
        /\ History(tasks[i].sender) # << >>

====
